---- MODULE Spec2Model ----
(***************************************************************************)
(* A model of wikipedia_template_parser/__init__.py.                       *)
(*                                                                         *)
(* Python strings are sequences of one-character strings, so that the      *)
(* regular expressions, str.split, str.strip and the substring tests of    *)
(* the source act on characters as they do in the program.                 *)
(*                                                                         *)
(* The module holds one specification per entry point:                     *)
(*   SpecLinks  clean_wiki_links                                           *)
(*   SpecTok    data_from_templates (scan, normalise, escape, tokenize)    *)
(*   SpecCoord  extract_data_from_coord                                    *)
(*   SpecTmpl   pages_with_template                                        *)
(*   SpecCat    pages_in_category                                          *)
(***************************************************************************)
EXTENDS Integers, Sequences, FiniteSets, TLC

VARIABLES
    \* clean_wiki_links: the input, the output, the output cleaned again
    lpc, ls, lonce, ltwice,
    \* data_from_templates: its locals, and whether the scanner's filter
    \* descends into nested templates
    tpc, wikitext, recursive, match, ti, template_string, name, key_values,
    ki, anon_counter, data, store,
    \* extract_data_from_coord: the input it is called on, its dict, the
    \* renumbered positional parameters, the dict it returns
    cpc, cin, template, renum, coord,
    \* pages_with_template: the listing the server holds, the flag, the
    \* token of the next request, the result of every call in progress, the
    \* list returned
    ppc, embeddedin, skip_users_and_templates, eicontinue, presults, pages,
    \* pages_in_category: the members the server holds for each category,
    \* the arguments of the first call, the calls in progress, the list
    \* visitedcats they share, the last request sent, the list returned
    kpc, categorymembers, catname0, maxdepth0, stack, visitedcats, lastreq,
    members

linkVars == <<lpc, ls, lonce, ltwice>>
tokVars == <<tpc, wikitext, recursive, match, ti, template_string, name,
             key_values, ki, anon_counter, data, store>>
coordVars == <<cpc, cin, template, renum, coord>>
tmplVars == <<ppc, embeddedin, skip_users_and_templates, eicontinue, presults,
              pages>>
catVars == <<kpc, categorymembers, catname0, maxdepth0, stack, visitedcats,
             lastreq, members>>
vars == <<linkVars, tokVars, coordVars, tmplVars, catVars>>

notLinks == <<tokVars, coordVars, tmplVars, catVars>>
notTok == <<linkVars, coordVars, tmplVars, catVars>>
notCoord == <<linkVars, tokVars, tmplVars, catVars>>
notTmpl == <<linkVars, tokVars, coordVars, catVars>>
notCat == <<linkVars, tokVars, coordVars, tmplVars>>

None == <<"None">>

\* the variables of the entry points a specification does not run
IdleLinks == lpc = "idle" /\ ls = None /\ lonce = None /\ ltwice = None

IdleTok ==
    /\ tpc = "idle" /\ wikitext = None /\ recursive = FALSE /\ match = None
    /\ ti = 0 /\ template_string = None /\ name = None /\ key_values = None
    /\ ki = 0 /\ anon_counter = 0 /\ data = None /\ store = None

IdleCoord ==
    cpc = "idle" /\ cin = None /\ template = None /\ renum = None /\ coord = None

IdleTmpl ==
    /\ ppc = "idle" /\ embeddedin = None /\ skip_users_and_templates = FALSE
    /\ eicontinue = None /\ presults = None /\ pages = None

IdleCat ==
    /\ kpc = "idle" /\ categorymembers = None /\ catname0 = None
    /\ maxdepth0 = 0 /\ stack = None /\ visitedcats = None
    /\ lastreq = [catname |-> None, cmcontinue |-> <<>>, by |-> "none"]
    /\ members = None

IdleNotLinks == IdleTok /\ IdleCoord /\ IdleTmpl /\ IdleCat
IdleNotTok == IdleLinks /\ IdleCoord /\ IdleTmpl /\ IdleCat
IdleNotCoord == IdleLinks /\ IdleTok /\ IdleTmpl /\ IdleCat
IdleNotTmpl == IdleLinks /\ IdleTok /\ IdleCoord /\ IdleCat
IdleNotCat == IdleLinks /\ IdleTok /\ IdleCoord /\ IdleTmpl

----------------------------------------------------------------------------
(* Strings                                                                 *)

RECURSIVE Flatten(_)
Flatten(ss) == IF ss = <<>> THEN <<>> ELSE Head(ss) \o Flatten(Tail(ss))

\* s[a..b] with 1-based inclusive bounds; empty when a > b
Slice(s, a, b) == IF a > b THEN <<>> ELSE SubSeq(s, a, b)

SeqsUpTo(S, n) == UNION {[1..k -> S] : k \in 0..n}

IsAt(s, i, c) == i >= 1 /\ i <= Len(s) /\ s[i] = c

\* first index j >= i that is past the end of s or holds a character of stop
RECURSIVE RunEnd(_, _, _)
RunEnd(s, i, stop) ==
    IF i > Len(s) \/ s[i] \in stop THEN i ELSE RunEnd(s, i + 1, stop)

\* sub in s (Python's "sub in s")
Contains(s, sub) ==
    \E i \in 1..(Len(s) - Len(sub) + 1) : SubSeq(s, i, i + Len(sub) - 1) = sub

StartsWith(s, p) == Len(p) <= Len(s) /\ SubSeq(s, 1, Len(p)) = p

\* str.strip(): whitespace removed at both ends
RECURSIVE LStrip(_)
LStrip(s) == IF s # <<>> /\ Head(s) = " " THEN LStrip(Tail(s)) ELSE s

RECURSIVE RStrip(_)
RStrip(s) ==
    IF s # <<>> /\ s[Len(s)] = " " THEN RStrip(SubSeq(s, 1, Len(s) - 1)) ELSE s

Strip(s) == RStrip(LStrip(s))

\* s.split(sep) for a one-character separator: the pieces between the
\* separators, empty pieces kept; always at least one piece
RECURSIVE Split(_, _)
Split(s, sep) ==
    LET j == RunEnd(s, 1, {sep})
    IN  IF j > Len(s) THEN <<s>>
        ELSE <<Slice(s, 1, j - 1)>> \o Split(Slice(s, j + 1, Len(s)), sep)

\* s.split(): the pieces between whitespace runs, empty pieces dropped
RECURSIVE SplitWs(_)
SplitWs(s) ==
    LET t == LStrip(s)
        j == RunEnd(t, 1, {" "})
    IN  IF t = <<>> THEN <<>>
        ELSE <<Slice(t, 1, j - 1)>> \o SplitWs(Slice(t, j, Len(t)))

\* sep.join(parts)
RECURSIVE Join(_, _)
Join(sep, parts) ==
    IF parts = <<>> THEN <<>>
    ELSE IF Len(parts) = 1 THEN parts[1]
    ELSE parts[1] \o sep \o Join(sep, Tail(parts))

Digits == <<"0", "1", "2", "3", "4", "5", "6", "7", "8", "9">>

DigitValue(c) == CHOOSE d \in 0..9 : Digits[d + 1] = c

\* '{}'.format(n) for n >= 0
RECURSIVE IntToStr(_)
IntToStr(n) ==
    IF n < 10 THEN <<Digits[n + 1]>>
    ELSE IntToStr(n \div 10) \o <<Digits[(n % 10) + 1]>>

\* a dict: a function from its keys; d[key] = value
EmptyDict == <<>>

DictSet(d, key, value) ==
    [k \in DOMAIN d \cup {key} |-> IF k = key THEN value ELSE d[k]]

DictDel(d, keys) == [k \in DOMAIN d \ keys |-> d[k]]

----------------------------------------------------------------------------
(* clean_wiki_links                                                        *)

\* A match of r'\[\[([^\|\]]+)\]\]' that starts at i: <<first and last
\* index of group 1, last index of the match>>, or <<>>.  The class run is
\* greedy and cannot hold ']', so the run up to the first '|' or ']' is the
\* only candidate.
LinkNoPipeMatch(s, i) ==
    IF IsAt(s, i, "[") /\ IsAt(s, i + 1, "[")
    THEN LET j == RunEnd(s, i + 2, {"|", "]"})
         IN  IF j > i + 2 /\ IsAt(s, j, "]") /\ IsAt(s, j + 1, "]")
             THEN <<i + 2, j - 1, j + 1>>
             ELSE <<>>
    ELSE <<>>

\* A match of r'\[\[[^\|\]]+\|([^\]]+)\]\]' that starts at i.
LinkPipeMatch(s, i) ==
    IF IsAt(s, i, "[") /\ IsAt(s, i + 1, "[")
    THEN LET j == RunEnd(s, i + 2, {"|", "]"})
             k == RunEnd(s, j + 1, {"]"})
         IN  IF /\ j > i + 2 /\ IsAt(s, j, "|")
                /\ k > j + 1 /\ IsAt(s, k, "]") /\ IsAt(s, k + 1, "]")
             THEN <<j + 1, k - 1, k + 1>>
             ELSE <<>>
    ELSE <<>>

LinkMatch(piped, s, i) ==
    IF piped THEN LinkPipeMatch(s, i) ELSE LinkNoPipeMatch(s, i)

\* re.sub(pattern, r'\1', s): the non-overlapping matches, leftmost first,
\* each replaced by its group 1; the scan resumes after the match.
RECURSIVE SubGroup1(_, _, _)
SubGroup1(piped, s, i) ==
    IF i > Len(s) THEN <<>>
    ELSE LET m == LinkMatch(piped, s, i)
         IN  IF m = <<>>
             THEN <<s[i]>> \o SubGroup1(piped, s, i + 1)
             ELSE Slice(s, m[1], m[2]) \o SubGroup1(piped, s, m[3] + 1)

clean_wiki_links(s) == SubGroup1(TRUE, SubGroup1(FALSE, s, 1), 1)

----------------------------------------------------------------------------
(* data_from_templates: the tokenizer (lines 203-213)                      *)

\* key_value.split("=", 1): <<key, value>>, or <<>> when the segment holds
\* no '=' (the ValueError of the tuple unpacking)
SplitFirstEq(seg) ==
    LET j == RunEnd(seg, 1, {"="})
    IN  IF j > Len(seg) THEN <<>>
        ELSE <<Slice(seg, 1, j - 1), Slice(seg, j + 1, Len(seg))>>

AnonPrefix == <<"a", "n", "o", "n", "_">>

\* 'anon_{}'.format(anon_counter)
AnonKey(n) == AnonPrefix \o IntToStr(n)

\* a faulty variant of NextAnonCounter: the counter counts every segment
NextAnonCounterEverySegment(cnt, seg) == cnt + 1

\* cnt after one pass of the loop body
NextAnonCounter(cnt, seg) ==
    IF SplitFirstEq(seg) = <<>> THEN cnt + 1 ELSE cnt

\* d after one pass of the loop body; cnt is the counter
\* before the pass
KeyValueStep(d, cnt, seg) ==
    LET kv == SplitFirstEq(seg)
        key == IF kv = <<>>
               THEN AnonKey(NextAnonCounter(cnt, seg))
               ELSE kv[1]
        value == IF kv = <<>> THEN seg ELSE kv[2]
    IN  DictSet(d, Strip(key), Strip(value))

\* the whole loop over segs
RECURSIVE TokenizeFrom(_, _, _)
TokenizeFrom(d, cnt, segs) ==
    IF segs = <<>> THEN d
    ELSE TokenizeFrom(KeyValueStep(d, cnt, Head(segs)),
                      NextAnonCounter(cnt, Head(segs)),
                      Tail(segs))

Tokenize(segs) == TokenizeFrom(EmptyDict, 0, segs)

----------------------------------------------------------------------------
(* extract_data_from_coord                                                 *)

optionalpars ==
    << <<"d", "i", "m">>,
       <<"g", "l", "o", "b", "e">>,
       <<"r", "e", "g", "i", "o", "n">>,
       <<"s", "c", "a", "l", "e">>,
       <<"s", "o", "u", "r", "c", "e">>,
       <<"t", "y", "p", "e">>,
       <<"d", "i", "s", "p", "l", "a", "y">> >>

\* todel (lines 93-98): the keys whose key or value holds an optional token
ToDel(tp) ==
    {k \in DOMAIN tp :
        \E n \in 1..Len(optionalpars) :
            Contains(tp[k], optionalpars[n]) \/ Contains(k, optionalpars[n])}

\* lines 93-101
StripOptional(tp) == DictDel(tp, ToDel(tp))

\* s.strip(chars)
RECURSIVE LStripChars(_, _)
LStripChars(s, chars) ==
    IF s # <<>> /\ Head(s) \in chars THEN LStripChars(Tail(s), chars) ELSE s

RECURSIVE RStripChars(_, _)
RStripChars(s, chars) ==
    IF s # <<>> /\ s[Len(s)] \in chars
    THEN RStripChars(SubSeq(s, 1, Len(s) - 1), chars)
    ELSE s

StripChars(s, chars) == RStripChars(LStripChars(s, chars), chars)

IsDigits(s) == s # <<>> /\ \A i \in 1..Len(s) : \E d \in 1..10 : Digits[d] = s[i]

RECURSIVE DigitsValue(_)
DigitsValue(s) ==
    IF s = <<>> THEN 0
    ELSE 10 * DigitsValue(SubSeq(s, 1, Len(s) - 1)) + DigitValue(s[Len(s)])

\* int(s) and float(s) on the numerals the model feeds them: an optional
\* sign and decimal digits.  <<n>>, or <<>> for the ValueError.
ParseNumber(s) ==
    LET signed == s # <<>> /\ Head(s) \in {"-", "+"}
        body == IF signed THEN Tail(s) ELSE s
    IN  IF ~IsDigits(body) THEN <<>>
        ELSE IF signed /\ Head(s) = "-" THEN <<-DigitsValue(body)>>
        ELSE <<DigitsValue(body)>>

\* anonpars (line 103)
AnonPars(tp) == {k \in DOMAIN tp : Contains(k, AnonPrefix)}

\* int(ap.strip('anon_'))
ParNum(ap) == ParseNumber(StripChars(ap, {"a", "n", "o", "_"}))

\* Lines 103-110.  The dict then holds integer keys beside the string keys
\* that are left; the integer-keyed part is pos.  A record with the error
\* when int() or min() raises.
Renumber(tp) ==
    LET anonpars == AnonPars(tp)
    IN  IF \E ap \in anonpars : ParNum(ap) = <<>>
        THEN [raised |-> "ValueError"]
        ELSE IF anonpars = {}
        THEN [raised |-> "ValueError"]
        ELSE LET parsnums == {ParNum(ap)[1] : ap \in anonpars}
             IN  [raised |-> "no",
                  pos |-> [n \in parsnums |->
                             tp[CHOOSE ap \in anonpars : ParNum(ap)[1] = n]],
                  parcount |-> Cardinality(anonpars),
                  startpar |-> CHOOSE n \in parsnums : \A m \in parsnums : n <= m]

\* Lines 112-139: the assignments made for a parcount, in the order of the
\* code, as <<offset from startpar, variable>>.
Layout(parcount) ==
    CASE parcount = 2 -> << <<0, "gglat">>, <<1, "gglong">> >>
      [] parcount = 4 -> << <<0, "gglat">>, <<1, "dirlat">>, <<2, "gglong">>,
                            <<3, "dirlong">> >>
      [] parcount = 6 -> << <<0, "gglat">>, <<1, "mmlat">>, <<2, "dirlat">>,
                            <<3, "gglong">>, <<4, "mmlong">>, <<5, "dirlong">> >>
      [] parcount = 8 -> << <<0, "gglat">>, <<1, "mmlat">>, <<2, "sslat">>,
                            <<3, "dirlat">>, <<4, "gglong">>, <<5, "mmlong">>,
                            <<6, "sslong">>, <<7, "dirlong">> >>
      [] OTHER -> << <<0, "gglat">> >>

IsDir(var) == var \in {"dirlat", "dirlong"}

\* the first assignment of the layout that raises: a missing key is a
\* KeyError, a float() of a non-number a ValueError
RECURSIVE FirstError(_, _, _)
FirstError(pos, startpar, layout) ==
    IF layout = <<>> THEN "no"
    ELSE LET n == startpar + Head(layout)[1]
         IN  IF n \notin DOMAIN pos THEN "KeyError"
             ELSE IF ~IsDir(Head(layout)[2]) /\ ParseNumber(pos[n]) = <<>>
             THEN "ValueError"
             ELSE FirstError(pos, startpar, Tail(layout))

\* the value a variable holds after the dispatch: what the layout assigns
\* it, or its initial value (0, or '' for a direction)
VarValue(pos, startpar, layout, var) ==
    IF \E i \in 1..Len(layout) : layout[i][2] = var
    THEN LET i == CHOOSE j \in 1..Len(layout) : layout[j][2] = var
             raw == pos[startpar + layout[i][1]]
         IN  IF IsDir(var) THEN raw ELSE ParseNumber(raw)[1]
    ELSE IF IsDir(var) THEN <<>> ELSE 0

\* Lines 141-142: gg + mm/60.0 + ss/3600.0, kept exact as a count of
\* arc-seconds (the value times 3600).
DecimalDegrees(gg, mm, ss) == gg * 3600 + mm * 60 + ss

\* a faulty variant of Signed: the sign is never changed
SignedNever(deg, dir, negative) == deg

\* lines 144-147
Signed(deg, dir, negative) == IF dir = negative THEN -deg ELSE deg

\* Lines 112-151, after the renumbering r: the coord dict, lat and lon in
\* arc-seconds, or the error raised.
Resolve(r) ==
    LET layout == Layout(r.parcount)
        err == FirstError(r.pos, r.startpar, layout)
        v(var) == VarValue(r.pos, r.startpar, layout, var)
    IN  IF err # "no" THEN [raised |-> err]
        ELSE [raised |-> "no",
              lat |-> Signed(DecimalDegrees(v("gglat"), v("mmlat"), v("sslat")),
                             v("dirlat"), <<"S">>),
              lon |-> Signed(DecimalDegrees(v("gglong"), v("mmlong"), v("sslong")),
                             v("dirlong"), <<"W">>)]

\* the whole function
extract_data_from_coord(tp) ==
    LET r == Renumber(StripOptional(tp))
    IN  IF r.raised # "no" THEN r ELSE Resolve(r)

----------------------------------------------------------------------------
(* clean_wiki_links: the specification                                     *)

\* Inputs of SpecLinks: texts made of link brackets, pipes and a letter.
LinkTokens == {<<"[", "[">>, <<"]", "]">>, <<"|">>, <<"a">>}
MaxLinkToks == 5
LinkInputs == {Flatten(t) : t \in SeqsUpTo(LinkTokens, MaxLinkToks)}

InitLinks ==
    /\ ls \in LinkInputs
    /\ lpc = "start"
    /\ lonce = None
    /\ ltwice = None
    /\ IdleNotLinks

\* s = clean_wiki_links(s)
Clean ==
    /\ lpc = "start"
    /\ lonce' = clean_wiki_links(ls)
    /\ lpc' = "once"
    /\ UNCHANGED <<ls, ltwice, notLinks>>

\* the caller runs the step again on its output
CleanAgain ==
    /\ lpc = "once"
    /\ ltwice' = clean_wiki_links(lonce)
    /\ lpc' = "twice"
    /\ UNCHANGED <<ls, lonce, notLinks>>

NextLinks == Clean \/ CleanAgain

SpecLinks == InitLinks /\ [][NextLinks]_vars

\* C6: link normalization is idempotent: cleaning the output of
\* clean_wiki_links again returns it unchanged, for every input.
C6_Idempotent == lpc = "twice" => ltwice = lonce

----------------------------------------------------------------------------
(* data_from_templates                                                     *)

\* ' '.join(wikitext.split())
Collapse(text) == Join(<<" ">>, SplitWs(text))

UpperCase == <<"A", "B", "C", "D", "E", "F", "G", "H", "I", "J", "K", "L", "M",
               "N", "O", "P", "Q", "R", "S", "T", "U", "V", "W", "X", "Y", "Z">>
LowerCase == <<"a", "b", "c", "d", "e", "f", "g", "h", "i", "j", "k", "l", "m",
               "n", "o", "p", "q", "r", "s", "t", "u", "v", "w", "x", "y", "z">>

LowerChar(c) ==
    IF \E i \in 1..26 : UpperCase[i] = c
    THEN LowerCase[CHOOSE i \in 1..26 : UpperCase[i] = c]
    ELSE c

\* s.lower()
Lower(s) == [i \in 1..Len(s) |-> LowerChar(s[i])]

\* s.replace(old, new) for one-character old and new
ReplaceChar(s, old, new) == [i \in 1..Len(s) |-> IF s[i] = old THEN new ELSE s[i]]

\* The template spans of a text, as the markup scanner pairs them: each
\* '{{' with the '}}' that closes it.  <<first index, last index>>.
RECURSIVE BraceSpans(_, _, _, _)
BraceSpans(s, i, opened, acc) ==
    IF i > Len(s) THEN acc
    ELSE IF IsAt(s, i, "{") /\ IsAt(s, i + 1, "{")
    THEN BraceSpans(s, i + 2, Append(opened, i), acc)
    ELSE IF IsAt(s, i, "}") /\ IsAt(s, i + 1, "}") /\ opened # <<>>
    THEN BraceSpans(s, i + 2, SubSeq(opened, 1, Len(opened) - 1),
                    acc \cup {<<opened[Len(opened)], i + 1>>})
    ELSE BraceSpans(s, i + 1, opened, acc)

TemplateSpans(s) == BraceSpans(s, 1, <<>>, {})

TopLevelSpans(spans) ==
    {sp \in spans : ~\E o \in spans : o[1] < sp[1] /\ sp[2] < o[2]}

RECURSIVE InDocumentOrder(_)
InDocumentOrder(spans) ==
    IF spans = {} THEN <<>>
    ELSE LET f == CHOOSE sp \in spans : \A o \in spans : sp[1] <= o[1]
         IN  <<f>> \o InDocumentOrder(spans \ {f})

\* mwparserfromhell.parse(content).filter_templates(): the templates of the
\* text in document order, delimiters included; with rec the nested ones
\* too, each after the template that holds it.
filter_templates(content, rec) ==
    LET spans == IF rec THEN TemplateSpans(content)
                 ELSE TopLevelSpans(TemplateSpans(content))
        sorted == InDocumentOrder(spans)
    IN  [i \in 1..Len(sorted) |-> SubSeq(content, sorted[i][1], sorted[i][2])]

\* clean_ref on a text that holds no markup element: the one text node,
\* stripped
clean_ref(s) == Strip(s)

\* A match of CURLY = r'\{\{([^\}]*)\}\}' that starts at i: <<first index
\* of the match, first and last index of group 1, last index of the match>>
CurlyMatch(s, i) ==
    IF IsAt(s, i, "{") /\ IsAt(s, i + 1, "{")
    THEN LET j == RunEnd(s, i + 2, {"}"})
         IN  IF IsAt(s, j, "}") /\ IsAt(s, j + 1, "}")
             THEN <<i, i + 2, j - 1, j + 1>>
             ELSE <<>>
    ELSE <<>>

\* CURLY.finditer(s): the non-overlapping matches, leftmost first
RECURSIVE CurlyFinditer(_, _)
CurlyFinditer(s, i) ==
    IF i > Len(s) THEN <<>>
    ELSE LET m == CurlyMatch(s, i)
         IN  IF m = <<>> THEN CurlyFinditer(s, i + 1)
             ELSE <<m>> \o CurlyFinditer(s, m[4] + 1)

\* Lines 199-201 for one match m of the text orig that finditer runs on:
\* t[:start] + '{{' + group(1).replace('|', '~') + '}}' + t[stop:]
EscapeMatch(t, orig, m) ==
    Slice(t, 1, m[1] - 1) \o <<"{", "{">>
        \o ReplaceChar(Slice(orig, m[2], m[3]), "|", "~")
        \o <<"}", "}">> \o Slice(t, m[4] + 1, Len(t))

RECURSIVE EscapeMatches(_, _, _)
EscapeMatches(t, orig, ms) ==
    IF ms = <<>> THEN t
    ELSE EscapeMatches(EscapeMatch(t, orig, Head(ms)), orig, Tail(ms))

\* lines 195-201
EscapeNested(s) == EscapeMatches(s, s, CurlyFinditer(s, 1))

\* '{{Outer|{{Inner|x|y}}|z}}'
OuterExample ==
    <<"{", "{", "O", "u", "t", "e", "r", "|", "{", "{", "I", "n", "n", "e",
      "r", "|", "x", "|", "y", "}", "}", "|", "z", "}", "}">>

\* '{{Inner|x|y}}'
InnerText ==
    <<"{", "{", "I", "n", "n", "e", "r", "|", "x", "|", "y", "}", "}">>

\* '{{a|{{b|{{c|d}}|e}}|f}}'
DeepExample ==
    <<"{", "{", "a", "|", "{", "{", "b", "|", "{", "{", "c", "|", "d", "}",
      "}", "|", "e", "}", "}", "|", "f", "}", "}">>

\* '{{Infobox|Name=Foo|Population=100|Foo bar}}'
InfoboxExample ==
    <<"{", "{", "I", "n", "f", "o", "b", "o", "x", "|", "N", "a", "m", "e",
      "=", "F", "o", "o", "|", "P", "o", "p", "u", "l", "a", "t", "i", "o",
      "n", "=", "1", "0", "0", "|", "F", "o", "o", " ", "b", "a", "r", "}",
      "}">>

\* '{{t|x|k=v|y}} and {{u| p = q }}'
TwoExample ==
    <<"{", "{", "t", "|", "x", "|", "k", "=", "v", "|", "y", "}", "}", " ",
      "a", "n", "d", " ", "{", "{", "u", "|", " ", "p", " ", "=", " ", "q",
      " ", "}", "}">>

\* '{{coord|41|12|S|12|34|W|display=inline}}'
CoordExample ==
    <<"{", "{", "c", "o", "o", "r", "d", "|", "4", "1", "|", "1", "2", "|",
      "S", "|", "1", "2", "|", "3", "4", "|", "W", "|", "d", "i", "s", "p",
      "l", "a", "y", "=", "i", "n", "l", "i", "n", "e", "}", "}">>

\* '{{Coord|41}}'
CoordOneExample ==
    <<"{", "{", "C", "o", "o", "r", "d", "|", "4", "1", "}", "}">>

\* '{{coord}} {{a}}'
CoordNoneExample ==
    <<"{", "{", "c", "o", "o", "r", "d", "}", "}", " ", "{", "{", "a", "}",
      "}">>

Examples == {OuterExample, DeepExample, InfoboxExample, TwoExample,
             CoordExample, CoordOneExample, CoordNoneExample}

\* the other wikitexts: one template around a body of at most MaxToks
\* tokens
TokTokens == {<<"{", "{">>, <<"}", "}">>, <<"|">>, <<"a">>, <<"=">>, <<" ">>}
MaxToks == 5
Wikitexts ==
    Examples \cup
    {<<"{", "{">> \o Flatten(b) \o <<"}", "}">> : b \in SeqsUpTo(TokTokens, MaxToks)}

CoordName == <<"c", "o", "o", "r", "d">>
LatKey == <<"l", "a", "t">>
LonKey == <<"l", "o", "n">>

InitTok ==
    /\ wikitext \in Wikitexts
    /\ recursive \in BOOLEAN
    /\ tpc = "scan"
    /\ match = None /\ ti = 0 /\ template_string = None /\ name = None
    /\ key_values = None /\ ki = 0 /\ anon_counter = 0 /\ data = None
    /\ store = <<>>
    /\ IdleNotTok

\* lines 191-194: template_string[2:-2], clean_ref, clean_wiki_links
Normalized(tmpl) == clean_wiki_links(clean_ref(Slice(tmpl, 3, Len(tmpl) - 2)))

\* lines 183-189
ScanTemplates ==
    /\ tpc = "scan"
    /\ match' = filter_templates(Collapse(wikitext), recursive)
    /\ ti' = 1
    /\ tpc' = "for"
    /\ UNCHANGED <<wikitext, recursive, template_string, name, key_values, ki,
                   anon_counter, data, store, notTok>>

\* lines 190-194
NormalizeTemplate ==
    /\ tpc = "for" /\ ti <= Len(match)
    /\ template_string' = Normalized(match[ti])
    /\ anon_counter' = 0
    /\ tpc' = "escape"
    /\ UNCHANGED <<wikitext, recursive, match, ti, name, key_values, ki, data,
                   store, notTok>>

\* lines 195-201
EscapeTemplate ==
    /\ tpc = "escape"
    /\ template_string' = EscapeNested(template_string)
    /\ tpc' = "split"
    /\ UNCHANGED <<wikitext, recursive, match, ti, name, key_values, ki,
                   anon_counter, data, store, notTok>>

\* lines 203-205
SplitTemplate ==
    /\ tpc = "split"
    /\ LET parts == Split(template_string, "|")
       IN  /\ name' = Strip(parts[1])
           /\ key_values' = Tail(parts)
    /\ data' = EmptyDict
    /\ ki' = 1
    /\ tpc' = "kv"
    /\ UNCHANGED <<wikitext, recursive, match, ti, template_string,
                   anon_counter, store, notTok>>

\* lines 206-213, one pass of the loop
KeyValue ==
    /\ tpc = "kv" /\ ki <= Len(key_values)
    /\ data' = KeyValueStep(data, anon_counter, key_values[ki])
    /\ anon_counter' = NextAnonCounter(anon_counter, key_values[ki])
    /\ ki' = ki + 1
    /\ UNCHANGED <<tpc, wikitext, recursive, match, ti, template_string, name,
                   key_values, store, notTok>>

\* name.lower().replace('_', ' ')
CleanedName == ReplaceChar(Lower(name), "_", " ")

\* lines 214-221, extra_coords being None
AppendOccurrence ==
    /\ tpc = "kv" /\ ki > Len(key_values)
    /\ LET c == extract_data_from_coord(data)
           final == IF CleanedName # CoordName THEN data
                    ELSE DictSet(DictSet(EmptyDict, LatKey, c.lat), LonKey, c.lon)
       IN  /\ CleanedName = CoordName => c.raised = "no"
           /\ store' = Append(store, [name |-> name, data |-> final])
    /\ ti' = ti + 1
    /\ tpc' = "for"
    /\ UNCHANGED <<wikitext, recursive, match, template_string, name,
                   key_values, ki, anon_counter, data, notTok>>

\* lines 215-216: extract_data_from_coord raises and nothing catches it
CoordRaises ==
    /\ tpc = "kv" /\ ki > Len(key_values)
    /\ CleanedName = CoordName
    /\ extract_data_from_coord(data).raised # "no"
    /\ tpc' = "raised"
    /\ UNCHANGED <<wikitext, recursive, match, ti, template_string, name,
                   key_values, ki, anon_counter, data, store, notTok>>

\* line 222
ReturnStore ==
    /\ tpc = "for" /\ ti > Len(match)
    /\ tpc' = "done"
    /\ UNCHANGED <<wikitext, recursive, match, ti, template_string, name,
                   key_values, ki, anon_counter, data, store, notTok>>

NextTok ==
    \/ ScanTemplates
    \/ NormalizeTemplate
    \/ EscapeTemplate
    \/ SplitTemplate
    \/ KeyValue
    \/ AppendOccurrence
    \/ CoordRaises
    \/ ReturnStore

SpecTok == InitTok /\ [][NextTok]_vars

----------------------------------------------------------------------------
(* Claims about the tokenizer and the escaping step                        *)

PipesOf(s) == {i \in 1..Len(s) : s[i] = "|"}

\* the index of the k-th '|' of s; 0 for k = 0, Len(s) + 1 past the last
KthPipe(s, k) ==
    IF k = 0 THEN 0
    ELSE IF k > Cardinality(PipesOf(s)) THEN Len(s) + 1
    ELSE CHOOSE i \in PipesOf(s) : Cardinality({j \in PipesOf(s) : j <= i}) = k

\* the text between the k-th '|' and the next one
SegmentOf(s, k) == Slice(s, KthPipe(s, k) + 1, KthPipe(s, k + 1) - 1)

Trimmed(s) ==
    LET ns == {i \in 1..Len(s) : s[i] # " "}
    IN  IF ns = {} THEN <<>>
        ELSE SubSeq(s, CHOOSE i \in ns : \A j \in ns : i <= j,
                       CHOOSE i \in ns : \A j \in ns : i >= j)

HasEq(s) == \E i \in 1..Len(s) : s[i] = "="

FirstEq(s) == CHOOSE i \in 1..Len(s) : s[i] = "=" /\ \A j \in 1..(i - 1) : s[j] # "="

\* the key and the value the claim gives segment k of body s
ClaimedKey(s, k) ==
    LET seg == SegmentOf(s, k)
    IN  IF HasEq(seg) THEN Trimmed(Slice(seg, 1, FirstEq(seg) - 1))
        ELSE AnonPrefix \o
             IntToStr(Cardinality({j \in 1..k : ~HasEq(SegmentOf(s, j))}))

ClaimedValue(s, k) ==
    LET seg == SegmentOf(s, k)
    IN  IF HasEq(seg) THEN Trimmed(Slice(seg, FirstEq(seg) + 1, Len(seg)))
        ELSE Trimmed(seg)

\* C1: the body is split on '|'; segment 0, trimmed, is the name; every
\* later segment with an '=' gives the trimmed text before the first '=' as
\* key and the trimmed text after it as value; every later segment without
\* one gives key anon_<n>, n counting from 1 over the segments without '='
\* only, and the trimmed segment as value.  A key given twice holds the
\* value of the last segment that gave it.
C1_Tokenize ==
    tpc = "kv" =>
        /\ name = Trimmed(SegmentOf(template_string, 0))
        /\ Len(key_values) = Cardinality(PipesOf(template_string))
        /\ DOMAIN data = {ClaimedKey(template_string, k) : k \in 1..(ki - 1)}
        /\ \A k \in 1..(ki - 1) :
              LET same == {j \in 1..(ki - 1) :
                              ClaimedKey(template_string, j) =
                              ClaimedKey(template_string, k)}
                  last == CHOOSE j \in same : \A m \in same : j >= m
              IN  data[ClaimedKey(template_string, k)] =
                      ClaimedValue(template_string, last)

\* the loop is over and a named parameter stood between two anonymous ones
C1_Witness ==
    /\ tpc = "kv" /\ ki > Len(key_values)
    /\ \E i, j, k \in 1..Len(key_values) :
          /\ i < j /\ j < k
          /\ ~HasEq(key_values[i]) /\ HasEq(key_values[j]) /\ ~HasEq(key_values[k])
    /\ AnonKey(2) \in DOMAIN data

OuterName == <<"O", "u", "t", "e", "r">>

\* C2: extracting from '{{Outer|{{Inner|x|y}}|z}}' gives exactly one
\* occurrence named Outer; one of its values still holds the text
\* '{{Inner|x|y}}' with its pipes, and the inner pipes did not split the
\* parameter list of Outer (it has the two parameters written).
C2_NestedIntact ==
    (tpc = "done" /\ wikitext = OuterExample) =>
        /\ Cardinality({i \in 1..Len(store) : store[i].name = OuterName}) = 1
        /\ \A i \in 1..Len(store) :
              store[i].name = OuterName =>
                  /\ \E k \in DOMAIN store[i].data :
                        Contains(store[i].data[k], InnerText)
                  /\ Cardinality(DOMAIN store[i].data) = 2

\* what the escaping step may change: a '|' inside a template span of the
\* body, into '~'
EscapeChangesOnlyInnerPipes(before, after) ==
    /\ Len(after) = Len(before)
    /\ \A i \in 1..Len(before) :
          after[i] # before[i] =>
              /\ before[i] = "|" /\ after[i] = "~"
              /\ \E sp \in TemplateSpans(before) : sp[1] < i /\ i < sp[2]

\* C9: after the escaping step no '|' is left between the '{{' of an inner
\* occurrence and the '}}' that closes it, at any depth of nesting, and the
\* step changed nothing but '|' characters inside those spans.
C9_EscapeProtects ==
    tpc = "split" =>
        /\ \A sp \in TemplateSpans(template_string) :
              \A i \in sp[1]..sp[2] : template_string[i] # "|"
        /\ EscapeChangesOnlyInnerPipes(Normalized(match[ti]), template_string)

\* the second half of C9 alone
EscapeKeepsTheRest ==
    tpc = "split" =>
        EscapeChangesOnlyInnerPipes(Normalized(match[ti]), template_string)

----------------------------------------------------------------------------
(* extract_data_from_coord: the specification                              *)

\* The inputs: the parameters of a coord template as written, tokenized as
\* data_from_templates does.  A layout input follows the table of the
\* arities 2, 4, 6 and 8; an extra input is a layout input with one more
\* parameter put among them; a free input is any short list of parameters.
Sides == {[d |-> 41, m |-> 12, s |-> 30], [d |-> 12, m |-> 34, s |-> 0]}
Dirs == {<<"N">>, <<"S">>, <<"W">>, <<"s">>, <<>>}
Arities == {2, 4, 6, 8}

\* 'display=inline', 'name=region:IT', 'type:city', 'name=Rome'
ExtraDisplay == <<"d", "i", "s", "p", "l", "a", "y", "=", "i", "n", "l", "i", "n", "e">>
ExtraRegion ==
    <<"n", "a", "m", "e", "=", "r", "e", "g", "i", "o", "n", ":", "I", "T">>
ExtraType == <<"t", "y", "p", "e", ":", "c", "i", "t", "y">>
ExtraName == <<"n", "a", "m", "e", "=", "R", "o", "m", "e">>
OptionalExtras == {ExtraDisplay, ExtraRegion, ExtraType}
Extras == OptionalExtras \cup {ExtraName}

FreeValues == {<<"1", "2">>, <<"S">>}
MaxFree == 9

LayoutSegs(c) ==
    CASE c.n = 2 -> <<IntToStr(c.latd), IntToStr(c.lond)>>
      [] c.n = 4 -> <<IntToStr(c.latd), c.latdir, IntToStr(c.lond), c.londir>>
      [] c.n = 6 -> <<IntToStr(c.latd), IntToStr(c.latm), c.latdir,
                      IntToStr(c.lond), IntToStr(c.lonm), c.londir>>
      [] c.n = 8 -> <<IntToStr(c.latd), IntToStr(c.latm), IntToStr(c.lats),
                      c.latdir, IntToStr(c.lond), IntToStr(c.lonm),
                      IntToStr(c.lons), c.londir>>

\* the fields of a layout of n parameters; those it lacks are 0 and ''
LayoutOf(n, lat, latdir, lon, londir) ==
    [n |-> n,
     latd |-> lat.d, lond |-> lon.d,
     latm |-> IF n >= 6 THEN lat.m ELSE 0, lonm |-> IF n >= 6 THEN lon.m ELSE 0,
     lats |-> IF n >= 8 THEN lat.s ELSE 0, lons |-> IF n >= 8 THEN lon.s ELSE 0,
     latdir |-> IF n >= 4 THEN latdir ELSE <<>>,
     londir |-> IF n >= 4 THEN londir ELSE <<>>]

LayoutInputs ==
    {LayoutOf(n, lat, latdir, lon, londir) :
        n \in Arities, lat \in Sides, latdir \in Dirs, lon \in Sides,
        londir \in Dirs}

InsertAt(s, p, x) == SubSeq(s, 1, p) \o <<x>> \o SubSeq(s, p + 1, Len(s))

InitCoord ==
    /\ \/ \E c \in LayoutInputs :
             cin = [kind |-> "layout", layout |-> c, segs |-> LayoutSegs(c)]
       \/ \E c \in LayoutInputs, x \in Extras, p \in 0..8 :
             /\ p <= c.n
             /\ cin = [kind |-> "extra", layout |-> c, extra |-> x, at |-> p,
                       segs |-> InsertAt(LayoutSegs(c), p, x)]
       \/ \E segs \in SeqsUpTo(FreeValues, MaxFree) :
             cin = [kind |-> "free", segs |-> segs]
    /\ template = Tokenize(cin.segs)
    /\ cpc = "strip"
    /\ renum = None
    /\ coord = None
    /\ IdleNotCoord

\* lines 93-101
StripOptionalPars ==
    /\ cpc = "strip"
    /\ template' = StripOptional(template)
    /\ cpc' = "renumber"
    /\ UNCHANGED <<cin, renum, coord, notCoord>>

\* lines 103-110
RenumberPars ==
    /\ cpc = "renumber"
    /\ Renumber(template).raised = "no"
    /\ renum' = Renumber(template)
    /\ cpc' = "dispatch"
    /\ UNCHANGED <<cin, template, coord, notCoord>>

\* lines 105, 108, 110: int() or min() raises
RenumberRaises ==
    /\ cpc = "renumber"
    /\ Renumber(template).raised # "no"
    /\ renum' = Renumber(template)
    /\ cpc' = "raised"
    /\ UNCHANGED <<cin, template, coord, notCoord>>

\* lines 112-151
ResolveCoord ==
    /\ cpc = "dispatch"
    /\ Resolve(renum).raised = "no"
    /\ coord' = Resolve(renum)
    /\ cpc' = "done"
    /\ UNCHANGED <<cin, template, renum, notCoord>>

\* lines 112-139: a lookup or float() raises
ResolveRaises ==
    /\ cpc = "dispatch"
    /\ Resolve(renum).raised # "no"
    /\ coord' = Resolve(renum)
    /\ cpc' = "raised"
    /\ UNCHANGED <<cin, template, renum, notCoord>>

NextCoord ==
    \/ StripOptionalPars
    \/ RenumberPars
    \/ RenumberRaises
    \/ ResolveCoord
    \/ ResolveRaises

SpecCoord == InitCoord /\ [][NextCoord]_vars

----------------------------------------------------------------------------
(* Claims about extract_data_from_coord                                    *)

\* the decimal degrees of the claim, times 3600
ClaimedLat(c) ==
    LET deg == c.latd * 3600 + c.latm * 60 + c.lats
    IN  IF c.latdir = <<"S">> THEN -deg ELSE deg

ClaimedLon(c) ==
    LET deg == c.lond * 3600 + c.lonm * 60 + c.lons
    IN  IF c.londir = <<"W">> THEN -deg ELSE deg

IsNamed(seg) == \E i \in 1..Len(seg) : seg[i] = "="

\* the input has exactly the positional parameters of its layout
LaidOut ==
    \/ cin.kind = "layout"
    \/ cin.kind = "extra" /\ IsNamed(cin.extra)

\* C3: for 2, 4, 6 or 8 positional parameters laid out as in the table the
\* resolver returns lat = deg + min/60 + sec/3600 of the latitude fields
\* and lon likewise (minutes and seconds that the layout lacks count 0),
\* lat negated exactly when the latitude direction is 'S', lon exactly
\* when the longitude direction is 'W'.
C3_Conversion ==
    LaidOut =>
        /\ cpc # "raised"
        /\ cpc = "done" =>
              /\ coord.lat = ClaimedLat(cin.layout)
              /\ coord.lon = ClaimedLon(cin.layout)

\* '{{coord|41|12|S|12|34|W|display=inline}}' is resolved: lat and lon are
\* -(41 + 12/60) and -(12 + 34/60)
C3_Witness ==
    /\ cpc = "done"
    /\ cin.kind = "extra" /\ cin.extra = ExtraDisplay /\ cin.at = 6
    /\ cin.segs = <<<<"4", "1">>, <<"1", "2">>, <<"S">>, <<"1", "2">>,
                    <<"3", "4">>, <<"W">>, ExtraDisplay>>
    /\ coord.lat = -(41 * 3600 + 12 * 60)
    /\ coord.lon = -(12 * 3600 + 34 * 60)

\* C4: a valid positional sequence plus one entry that holds a reserved
\* token resolves to the lat/lon of the sequence alone, wherever the entry
\* sits, named or positional.
C4_StrippingPositionFree ==
    (cin.kind = "extra" /\ cin.extra \in OptionalExtras) =>
        /\ cpc # "raised"
        /\ cpc = "done" =>
              /\ coord.lat = ClaimedLat(cin.layout)
              /\ coord.lon = ClaimedLon(cin.layout)

\* the positional parameters that survive the stripping, as <<n, value>>
\* with n the number the tokenizer gave the parameter
Surviving(segs) ==
    {<<Cardinality({j \in 1..i : ~IsNamed(segs[j])}), segs[i]>> :
        i \in {k \in 1..Len(segs) :
                  /\ ~IsNamed(segs[k])
                  /\ ~\E n \in 1..Len(optionalpars) :
                        Contains(segs[k], optionalpars[n])}}

IsNumeral(v) ==
    /\ v # <<>>
    /\ \A i \in 1..Len(v) : v[i] \in {Digits[d] : d \in 1..10}

\* the offsets of the table that hold a number
NumericOffsets(count) ==
    CASE count = 2 -> {0, 1}
      [] count = 4 -> {0, 2}
      [] count = 6 -> {0, 1, 3, 4}
      [] count = 8 -> {0, 1, 2, 4, 5, 6}
      [] OTHER -> {}

\* the occurrence C5 is about: a count other than 2, 4, 6 and 8, or a
\* required positional value that is missing or not a number
Unresolvable(segs) ==
    LET surv == Surviving(segs)
        count == Cardinality(surv)
        nums == {sv[1] : sv \in surv}
        start == CHOOSE n \in nums : \A m \in nums : n <= m
    IN  \/ count \notin Arities
        \/ \E off \in 0..(count - 1) :
              \/ start + off \notin nums
              \/ /\ off \in NumericOffsets(count)
                 /\ \E sv \in surv : sv[1] = start + off /\ ~IsNumeral(sv[2])

\* C5: a coord occurrence with a count of surviving positional parameters
\* other than 2, 4, 6 and 8, or with a required positional value missing
\* or not a number, fails the call; no lat/lon is returned for it.
C5_BadArityFails == cpc = "done" => ~Unresolvable(cin.segs)

\* the half of C5 that the code keeps: with 2, 4, 6 or 8 surviving
\* parameters, a missing or non-numeric required value raises
BadValueFails ==
    (cpc = "done" /\ Cardinality(Surviving(cin.segs)) \in Arities) =>
        ~Unresolvable(cin.segs)

----------------------------------------------------------------------------
(* pages_with_template                                                    *)

\* Lines 242-253.  No comma follows 'user_talk:', so Python joins it with the
\* next literal: the tuple holds 'user_talk:discussioni_utente:'.
skip_page ==
    <<
      <<"u", "s", "e", "r", ":">>,
      <<"u", "t", "e", "n", "t", "e", ":">>,
      <<"u", "s", "e", "r", "_", "t", "a", "l", "k", ":", "d", "i", "s",
        "c", "u", "s", "s", "i", "o", "n", "i", "_", "u", "t", "e", "n",
        "t", "e", ":">>,
      <<"t", "e", "m", "p", "l", "a", "t", "e", ":">>,
      <<"t", "e", "m", "p", "l", "a", "t", "e", "_", "t", "a", "l", "k",
        ":">>,
      <<"d", "i", "s", "c", "u", "s", "s", "i", "o", "n", "i", "_", "t",
        "e", "m", "p", "l", "a", "t", "e", ":">>
    >>

\* the titles a listing is made of: 'User:A', 'User talk:A', 'Template:T', 'Template talk:T',
\* 'Utente:A', 'Discussioni utente:A', 'Discussioni template:T', 'Rome', 'Users'
TitleList ==
    <<
      <<"U", "s", "e", "r", ":", "A">>,
      <<"U", "s", "e", "r", " ", "t", "a", "l", "k", ":", "A">>,
      <<"T", "e", "m", "p", "l", "a", "t", "e", ":", "T">>,
      <<"T", "e", "m", "p", "l", "a", "t", "e", " ", "t", "a", "l", "k",
        ":", "T">>,
      <<"U", "t", "e", "n", "t", "e", ":", "A">>,
      <<"D", "i", "s", "c", "u", "s", "s", "i", "o", "n", "i", " ", "u",
        "t", "e", "n", "t", "e", ":", "A">>,
      <<"D", "i", "s", "c", "u", "s", "s", "i", "o", "n", "i", " ", "t",
        "e", "m", "p", "l", "a", "t", "e", ":", "T">>,
      <<"R", "o", "m", "e">>,
      <<"U", "s", "e", "r", "s">>
    >>

\* the namespace prefixes the claim names, with their localized variants
ReservedPrefixes ==
    <<
      <<"u", "s", "e", "r", ":">>,
      <<"u", "s", "e", "r", " ", "t", "a", "l", "k", ":">>,
      <<"t", "e", "m", "p", "l", "a", "t", "e", ":">>,
      <<"t", "e", "m", "p", "l", "a", "t", "e", " ", "t", "a", "l", "k",
        ":">>,
      <<"u", "t", "e", "n", "t", "e", ":">>,
      <<"d", "i", "s", "c", "u", "s", "s", "i", "o", "n", "i", " ", "u",
        "t", "e", "n", "t", "e", ":">>,
      <<"d", "i", "s", "c", "u", "s", "s", "i", "o", "n", "i", " ", "t",
        "e", "m", "p", "l", "a", "t", "e", ":">>
    >>

Titles == {TitleList[i] : i \in 1..Len(TitleList)}

\* the listings: at most MaxTitles titles, each once
MaxTitles == 3
Listings == {l \in SeqsUpTo(Titles, MaxTitles) :
                \A i, j \in 1..Len(l) : i # j => l[i] # l[j]}

\* eilimit, 500 in the code (line 259), scaled down to the listings of the
\* model: the titles of one response
eilimit == 2

\* x['title'].lower().startswith(skip_page)
StartsWithAny(title, prefixes) ==
    \E i \in 1..Len(prefixes) : StartsWith(Lower(title), prefixes[i])

\* lines 268-273: whether a listed title goes into result
KeepTitle(title, skip) == ~skip \/ ~StartsWithAny(title, skip_page)

RECURSIVE SelectTitles(_, _)
SelectTitles(listed, skip) ==
    IF listed = <<>> THEN <<>>
    ELSE (IF KeepTitle(Head(listed), skip) THEN <<Head(listed)>> ELSE <<>>)
             \o SelectTitles(Tail(listed), skip)

\* The server's answer to a request: the titles from the token on, eilimit
\* at most, and the token of the rest, none when nothing is left.  A token
\* is <<the index of the first title not yet sent>>; NoToken is Python's
\* None.
NoToken == <<>>

FirstOf(token) == IF token = NoToken THEN 1 ELSE token[1]

ResponseTitles(listing, token) ==
    LET from == FirstOf(token)
        upto == IF from + eilimit - 1 < Len(listing) THEN from + eilimit - 1
                ELSE Len(listing)
    IN  Slice(listing, from, upto)

ResponseContinue(listing, token) ==
    IF FirstOf(token) + eilimit <= Len(listing) THEN <<FirstOf(token) + eilimit>>
    ELSE NoToken

InitTmpl ==
    /\ embeddedin \in Listings
    /\ skip_users_and_templates \in BOOLEAN
    /\ eicontinue = NoToken
    /\ presults = <<>>
    /\ pages = None
    /\ ppc = "call"
    /\ IdleNotTmpl

\* lines 238-278 of one call: the request, the filter, the next token; then
\* the call either calls itself (line 280) or returns
RequestPage ==
    /\ ppc = "call"
    /\ presults' = Append(presults,
                          SelectTitles(ResponseTitles(embeddedin, eicontinue),
                                       skip_users_and_templates))
    /\ eicontinue' = ResponseContinue(embeddedin, eicontinue)
    /\ ppc' = IF eicontinue' # NoToken THEN "call" ELSE "return"
    /\ UNCHANGED <<embeddedin, skip_users_and_templates, pages, notTmpl>>

\* lines 280-286: a call returns and its caller adds the list to its own
ReturnToCaller ==
    /\ ppc = "return" /\ Len(presults) > 1
    /\ LET n == Len(presults)
       IN  presults' = Append(SubSeq(presults, 1, n - 2),
                              presults[n - 1] \o presults[n])
    /\ UNCHANGED <<ppc, embeddedin, skip_users_and_templates, eicontinue, pages,
                   notTmpl>>

\* line 286 of the first call
ReturnPages ==
    /\ ppc = "return" /\ Len(presults) = 1
    /\ pages' = presults[1]
    /\ ppc' = "done"
    /\ UNCHANGED <<embeddedin, skip_users_and_templates, eicontinue, presults,
                   notTmpl>>

NextTmpl == RequestPage \/ ReturnToCaller \/ ReturnPages

SpecTmpl == InitTmpl /\ [][NextTmpl]_vars

----------------------------------------------------------------------------
(* Claims about pages_with_template                                        *)

IsReserved(title) ==
    \E i \in 1..Len(ReservedPrefixes) :
        \E n \in 1..Len(title) :
            [k \in 1..n |-> LowerChar(title[k])] = ReservedPrefixes[i]

\* C7: with skip_users_and_templates, the list returned holds no title
\* whose lowercase form starts with 'user:', 'user talk:', 'template:',
\* 'template talk:' or a localized variant, over every page of results, and
\* holds every other listed title.
C7_SkipsReserved ==
    (ppc = "done" /\ skip_users_and_templates) =>
        /\ \A i \in 1..Len(pages) : ~IsReserved(pages[i])
        /\ \A i \in 1..Len(embeddedin) :
              ~IsReserved(embeddedin[i]) =>
                  \E j \in 1..Len(pages) : pages[j] = embeddedin[i]

\* what the code keeps of C7: the titles of the 'user:', 'utente:' and
\* 'template:' namespaces are skipped
SkipsUserAndTemplate ==
    (ppc = "done" /\ skip_users_and_templates) =>
        \A i \in 1..Len(pages) :
            pages[i] \notin {TitleList[1], TitleList[3], TitleList[5]}

----------------------------------------------------------------------------
(* pages_in_category                                                       *)

\* The titles of the model: a page 'P' (namespace 0) and the categories
\* 'A' and 'B b' (namespace 14).
PageP == [title |-> <<"P">>, ns |-> 0]
CatA == [title |-> <<"A">>, ns |-> 14]
CatB == [title |-> <<"B", " ", "b">>, ns |-> 14]
Members == {PageP, CatA, CatB}
Categories == {CatA.title, CatB.title}

\* the members of a category: at most MaxMembers, each once
MaxMembers == 2
MemberLists == {l \in SeqsUpTo(Members, MaxMembers) :
                   \A i, j \in 1..Len(l) : i # j => l[i] # l[j]}

MaxDepth == 2

\* cmlimit, '500' in the code (line 304), scaled down to the lists of the
\* model: the members of one response
cmlimit == 1

\* the calls the model lets be in progress at once; the code has no such
\* bound, and no run of it on these graphs comes near
StackCap == (MaxDepth + 1) * (MaxMembers + 1) + 1

\* the server reads '_' in a title as ' '
Canonical(title) == ReplaceChar(title, "_", " ")

\* A continuation token is <<the category whose listing it continues, the
\* index of the first member not yet sent>>; the client only passes it on.
\* The answer to a request: the members from an index on, cmlimit at most,
\* and the token of the rest.
Answer(cat, from) ==
    LET listing == categorymembers[Canonical(cat)]
        upto == IF from + cmlimit - 1 < Len(listing) THEN from + cmlimit - 1
                ELSE Len(listing)
    IN  [ok |-> TRUE,
         categorymembers |-> Slice(listing, from, upto),
         cmcontinue |-> IF from + cmlimit <= Len(listing)
                        THEN <<Canonical(cat), from + cmlimit>>
                        ELSE NoToken]

\* The answers the server may give.  Without a token the listing starts;
\* with a token of the category it goes on where the token says.  A token
\* of another category's listing is a position in another sort order: the
\* server goes on from some place of this listing, or refuses the request.
Answers(cat, token) ==
    IF token = NoToken THEN {Answer(cat, 1)}
    ELSE IF token[1] = Canonical(cat) THEN {Answer(cat, token[2])}
    ELSE {Answer(cat, from) :
             from \in 1..(Len(categorymembers[Canonical(cat)]) + 1)}
         \cup {[ok |-> FALSE]}

\* lines 314-317
RECURSIVE PagesOf(_)
PagesOf(listed) ==
    IF listed = <<>> THEN <<>>
    ELSE (IF Head(listed).ns = 0 THEN <<Head(listed).title>> ELSE <<>>)
             \o PagesOf(Tail(listed))

\* lines 318-320
RECURSIVE SubcatsOf(_, _)
SubcatsOf(listed, visited) ==
    IF listed = <<>> THEN <<>>
    ELSE (IF /\ Head(listed).ns = 14
             /\ ~\E i \in 1..Len(visited) : visited[i] = Head(listed).title
          THEN <<ReplaceChar(Head(listed).title, " ", "_")>>
          ELSE <<>>)
             \o SubcatsOf(Tail(listed), visited)

\* a faulty variant of DepthBelow: the depth budget is not spent
DepthBelowKept(maxdepth) == maxdepth

\* line 333
DepthBelow(maxdepth) == maxdepth - 1

\* line 340: the cmcontinue the call for a subcategory is given
SubcatToken(cmcontinue) == cmcontinue

\* a call of pages_in_category that starts; by is "first", "continue"
\* (line 327) or "subcat" (line 337)
NewCall(catname, maxdepth, cmcontinue, by) ==
    [catname |-> catname, maxdepth |-> maxdepth, cmcontinue |-> cmcontinue,
     by |-> by, result |-> <<>>, subcats |-> <<>>, i |-> 0, at |-> "request"]

Top == stack[Len(stack)]
SetTop(f) == [stack EXCEPT ![Len(stack)] = f]
Push(f, callee) == Append(SetTop(f), callee)

InitCat ==
    /\ categorymembers \in [Categories -> MemberLists]
    /\ catname0 \in {ReplaceChar(c, " ", "_") : c \in Categories}
    /\ maxdepth0 \in 0..MaxDepth
    /\ stack = <<NewCall(catname0, maxdepth0, NoToken, "first")>>
    /\ visitedcats = <<>>
    /\ lastreq = [catname |-> None, cmcontinue |-> NoToken, by |-> "none"]
    /\ members = None
    /\ kpc = "running"
    /\ IdleNotCat

\* lines 299-325: the request and what is read off the answer
RequestMembers ==
    /\ kpc = "running" /\ Top.at = "request"
    /\ \E res \in Answers(Top.catname, Top.cmcontinue) :
          /\ res.ok
          /\ stack' = SetTop([Top EXCEPT
                 !.result = PagesOf(res.categorymembers),
                 !.subcats = SubcatsOf(res.categorymembers, visitedcats),
                 !.cmcontinue = res.cmcontinue,
                 !.at = "continue"])
    /\ lastreq' = [catname |-> Top.catname, cmcontinue |-> Top.cmcontinue,
                   by |-> Top.by]
    /\ UNCHANGED <<kpc, categorymembers, catname0, maxdepth0, visitedcats,
                   members, notCat>>

\* lines 311-315: the server refuses the request; the error is not caught
\* anywhere and ends every call in progress
RequestRefused ==
    /\ kpc = "running" /\ Top.at = "request"
    /\ \E res \in Answers(Top.catname, Top.cmcontinue) : ~res.ok
    /\ lastreq' = [catname |-> Top.catname, cmcontinue |-> Top.cmcontinue,
                   by |-> Top.by]
    /\ stack' = <<>>
    /\ kpc' = "raised"
    /\ UNCHANGED <<categorymembers, catname0, maxdepth0, visitedcats, members,
                   notCat>>

\* lines 326-332: the call for the rest of the listing
CallContinuation ==
    /\ kpc = "running" /\ Top.at = "continue"
    /\ Top.cmcontinue # NoToken
    /\ Len(stack) < StackCap
    /\ stack' = Push([Top EXCEPT !.at = "continued"],
                     NewCall(Top.catname, Top.maxdepth, Top.cmcontinue, "continue"))
    /\ UNCHANGED <<kpc, categorymembers, catname0, maxdepth0, visitedcats,
                   lastreq, members, notCat>>

\* lines 333-335, reached at once when there is no token and else when the
\* call for the rest has returned
SpendDepth ==
    /\ kpc = "running"
    /\ \/ Top.at = "continue" /\ Top.cmcontinue = NoToken
       \/ Top.at = "depth"
    /\ LET below == DepthBelow(Top.maxdepth)
       IN  stack' = SetTop([Top EXCEPT
               !.maxdepth = below,
               !.i = 1,
               !.at = IF below >= 0 /\ Top.subcats # <<>> THEN "loop"
                      ELSE "return"])
    /\ UNCHANGED <<kpc, categorymembers, catname0, maxdepth0, visitedcats,
                   lastreq, members, notCat>>

\* lines 336-342: the call for the next subcategory
CallSubcategory ==
    /\ kpc = "running" /\ Top.at = "loop"
    /\ Top.i <= Len(Top.subcats)
    /\ Len(stack) < StackCap
    /\ stack' = Push([Top EXCEPT !.at = "descended"],
                     NewCall(Top.subcats[Top.i], Top.maxdepth,
                             SubcatToken(Top.cmcontinue), "subcat"))
    /\ UNCHANGED <<kpc, categorymembers, catname0, maxdepth0, visitedcats,
                   lastreq, members, notCat>>

\* line 336: the loop is over
EndLoop ==
    /\ kpc = "running" /\ Top.at = "loop"
    /\ Top.i > Len(Top.subcats)
    /\ stack' = SetTop([Top EXCEPT !.at = "return"])
    /\ UNCHANGED <<kpc, categorymembers, catname0, maxdepth0, visitedcats,
                   lastreq, members, notCat>>

\* line 344 of a call made at line 327: result += ...
ReturnToContinued ==
    /\ kpc = "running" /\ Top.at = "return" /\ Len(stack) > 1
    /\ LET caller == stack[Len(stack) - 1]
       IN  /\ caller.at = "continued"
           /\ stack' = Append(SubSeq(stack, 1, Len(stack) - 2),
                              [caller EXCEPT !.result = @ \o Top.result,
                                             !.at = "depth"])
    /\ UNCHANGED <<kpc, categorymembers, catname0, maxdepth0, visitedcats,
                   lastreq, members, notCat>>

\* line 344 of a call made at line 337: result += ..., then line 343
ReturnToLoop ==
    /\ kpc = "running" /\ Top.at = "return" /\ Len(stack) > 1
    /\ LET caller == stack[Len(stack) - 1]
       IN  /\ caller.at = "descended"
           /\ stack' = Append(SubSeq(stack, 1, Len(stack) - 2),
                              [caller EXCEPT !.result = @ \o Top.result,
                                             !.i = @ + 1,
                                             !.at = "loop"])
           /\ visitedcats' = Append(visitedcats, caller.subcats[caller.i])
    /\ UNCHANGED <<kpc, categorymembers, catname0, maxdepth0, lastreq, members,
                   notCat>>

\* line 344 of the first call
ReturnMembers ==
    /\ kpc = "running" /\ Top.at = "return" /\ Len(stack) = 1
    /\ members' = Top.result
    /\ stack' = <<>>
    /\ kpc' = "done"
    /\ UNCHANGED <<categorymembers, catname0, maxdepth0, visitedcats, lastreq,
                   notCat>>

NextCat ==
    \/ RequestMembers
    \/ RequestRefused
    \/ CallContinuation
    \/ SpendDepth
    \/ CallSubcategory
    \/ EndLoop
    \/ ReturnToContinued
    \/ ReturnToLoop
    \/ ReturnMembers

\* The interpreter runs a call as long as it has a statement to run.
SpecCat == InitCat /\ [][NextCat]_vars /\ WF_vars(NextCat)

----------------------------------------------------------------------------
(* Claims about pages_in_category                                          *)

\* C8: pages_in_category terminates (it returns, or an error ends it) on
\* every finite category graph, cycles included, for every maxdepth >= 0.
C8_Terminates == <>(kpc \in {"done", "raised"})

\* the first call returned after it went down the whole depth budget on a
\* graph where the first category is a subcategory again, and its listing
\* took more than one request
C8_Witness ==
    /\ kpc = "done"
    /\ maxdepth0 = MaxDepth
    /\ Len(categorymembers[Canonical(catname0)]) > cmlimit
    /\ \E i \in 1..Len(visitedcats) : visitedcats[i] = catname0

\* C10: a continuation token is sent only in a request for the category
\* whose listing returned it, and the first request of a call for a
\* subcategory carries none.
C10_TokenStaysWithCategory ==
    lastreq.by # "none" =>
        /\ lastreq.cmcontinue # NoToken =>
              lastreq.cmcontinue[1] = Canonical(lastreq.catname)
        /\ lastreq.by = "subcat" => lastreq.cmcontinue = NoToken

====
